---- MODULE Spec2Model ----
(***************************************************************************)
(* Model of custom_components/airzone_local/climate.py: the client         *)
(* AirzoneCloudLocal (_load_all, _request, _login), setup_platform and the *)
(* climate entities AirzonecloudZone / AirzonecloudSystem.                 *)
(*                                                                         *)
(* Conventions.  A Python value that may be an int or a str is a record    *)
(* [kind, int, str], so that an int never equals a str, as in Python.      *)
(* The snapshot self._devices is flattened to one record per zone of the   *)
(* single system; an entity reads its zone (self._azc_zone) by its fixed   *)
(* index in that snapshot.  The controller (the HTTP peer) and the client  *)
(* mutation methods the entities call are not part of the source file;     *)
(* they are modelled from the specification (ApplyCall).                   *)
(***************************************************************************)
EXTENDS Integers, Sequences, FiniteSets, TLC

\* ------------------------------------------------------------- bounds
NumZones == 2          \* zones of the system (configuration number_of_zones)
DefaultTemp == 20      \* setpoint, Celsius, every zone starts with
MinTempC == 16         \* lowest target temperature requested, Celsius
MaxTempC == 30         \* highest target temperature requested, Celsius
MaxTokens == 2         \* logins after which no further request is started

Zones == 1..NumZones

\* ------------------------------------------------------ Python values
PyInt(n) == [kind |-> "int", int |-> n, str |-> ""]
PyStr(s) == [kind |-> "str", int |-> 0, str |-> s]
PyNone == [kind |-> "none", int |-> 0, str |-> ""]

\* `mode in [names]`: a list of str never contains an int
InList(mode, names) == mode.kind = "str" /\ mode.str \in names

HVAC_MODE_OFF == "off"
HVAC_MODE_HEAT == "heat"
HVAC_MODE_COOL == "cool"
HVAC_MODE_DRY == "dry"
HVAC_MODE_FAN_ONLY == "fan_only"

AIRZONECLOUD_ZONE_HVAC_MODES ==
  <<HVAC_MODE_OFF, HVAC_MODE_HEAT, HVAC_MODE_COOL, HVAC_MODE_DRY, HVAC_MODE_FAN_ONLY>>

HvacModes == {AIRZONECLOUD_ZONE_HVAC_MODES[i] : i \in 1..Len(AIRZONECLOUD_ZONE_HVAC_MODES)}

\* mode names the entities send, and the names hvac_mode recognises
SentModeNames == {"stop", "heat-both", "cool-both", "dehumidify", "ventilate"}
KnownModeNames ==
  {"cool-air", "cool-radiant", "cool-both", "heat-air", "heat-radiant", "heat-both",
   "ventilate", "dehumidify", "stop"}
RawCodes == 1..5

VARIABLES
  controller,       \* controller-side state: zone -> [on, mode, setpoint]
  devices,          \* self._devices: the snapshot, a sequence of zone records
  current_devices,  \* _load_all's local current_devices
  fetched,          \* the list _get_device_relations() returned
  loadPc,           \* position in _load_all: idle, fetch, loop, raised
  loadCaller,       \* who runs _load_all: none, init (constructor), update
  setupPc,          \* setup_platform: start, constructing, aborted, ready
  notifications,    \* persistent_notification.create calls
  addEntitiesCalls, \* add_entities calls
  entities,         \* entities registered with the host (0: the system entity)
  updateRaised,     \* an exception left AirzonecloudSystem.update
  master,           \* self._master: index of the master zone
  calls,            \* mutation calls issued by the current entity handler
  lastCmd,          \* the entity handler that ran last, with its arguments
  reported,         \* value returned by the last hvac_mode read
  reqPc,            \* position in _request: idle, call, check, login, done
  reqKind,          \* method and endpoint of the running request
  autoreconnect,    \* _request's autoreconnect parameter
  depth,            \* nesting depth of _request
  httpCalls,        \* self._session.request calls of this invocation
  logins,           \* _login calls of this invocation
  statusSeq,        \* status codes the calls of this invocation returned
  reqResult,        \* pending, ok, error
  reqSteps,         \* steps this invocation has taken
  token             \* self._token, counted by the logins that set it

mainVars ==
  <<controller, devices, current_devices, fetched, loadPc, loadCaller, setupPc,
    notifications, addEntitiesCalls, entities, updateRaised, master, calls, lastCmd,
    reported>>
reqVars ==
  <<reqPc, reqKind, autoreconnect, depth, httpCalls, logins, statusSeq, reqResult,
    reqSteps, token>>
vars == <<mainVars, reqVars>>

\* ------------------------------------------------------------ records
ZoneData(on, mode, setpoint) == [on |-> on, mode |-> mode, setpoint |-> setpoint]
Device(id, data) == [id |-> id, on |-> data.on, mode |-> data.mode, setpoint |-> data.setpoint]

Call(op, zone, mode, value) == [op |-> op, zone |-> zone, mode |-> mode, value |-> value]
Cmd(op, zone, mode, was_on, kwargs) ==
  [op |-> op, zone |-> zone, mode |-> mode, was_on |-> was_on, kwargs |-> kwargs]
NoCmd == Cmd("none", 0, "", FALSE, <<>>)
NoReport == [zone |-> 0, value |-> ""]

\* --------------------------------------------------- entity accessors
\* AirzonecloudZone.hvac_mode: mode = self._azc_zone.mode, mapped only when
\* self._azc_zone.is_on; every other case falls through to HVAC_MODE_OFF
hvac_mode(zone) ==
  IF zone.on
  THEN IF InList(zone.mode, {"cool-air", "cool-radiant", "cool-both"}) THEN HVAC_MODE_COOL
       ELSE IF InList(zone.mode, {"heat-air", "heat-radiant", "heat-both"}) THEN HVAC_MODE_HEAT
       ELSE IF zone.mode = PyStr("ventilate") THEN HVAC_MODE_FAN_ONLY
       ELSE IF zone.mode = PyStr("dehumidify") THEN HVAC_MODE_DRY
       ELSE HVAC_MODE_OFF
  ELSE HVAC_MODE_OFF

\* AirzonecloudZone.target_temperature and is_on read the zone's own fields
target_temperature(zone) == zone.setpoint
is_on(zone) == zone.on

\* what the host reads from the entities of a snapshot
AccessorView(devs) ==
  [z \in 1..Len(devs) |->
     [hvac_mode |-> hvac_mode(devs[z]),
      target_temperature |-> target_temperature(devs[z]),
      is_on |-> is_on(devs[z])]]

\* ------------------------------------------- round(float(temperature), 1)
\* A temperature with two fractional digits is h hundredths; float() gives the
\* double nearest h/100 and round(x, 1) the tenth nearest that double, an
\* exact tie going to the even tenth.
RECURSIVE Pow2Mod100(_)
Pow2Mod100(e) == IF e = 0 THEN 1 ELSE (2 * Pow2Mod100(e - 1)) % 100

RECURSIVE Pow2(_)
Pow2(e) == IF e = 0 THEN 1 ELSE 2 * Pow2(e - 1)

\* the k with 2^k <= h/100 < 2^(k+1), for h > 0
RECURSIVE Log2Up(_, _)
Log2Up(h, k) == IF 100 * Pow2(k + 1) > h THEN k ELSE Log2Up(h, k + 1)
RECURSIVE Log2Down(_, _)
Log2Down(h, j) == IF h * Pow2(j) >= 100 THEN 0 - j ELSE Log2Down(h, j + 1)
FloatExponent(h) == IF h >= 100 THEN Log2Up(h, 0) ELSE Log2Down(h, 1)

\* sign of float(h/100) - h/100: the 53-bit significand is h * 2^e / 100
\* rounded to an integer, e = 52 - FloatExponent(h); the remainder of the
\* division decides the direction (it is never exactly one half)
FloatErrSign(h) ==
  IF h = 0 THEN 0
  ELSE LET e == 52 - FloatExponent(h)
           r == ((h % 100) * Pow2Mod100(e)) % 100
       IN IF r = 0 THEN 0 ELSE IF r < 50 THEN 0 - 1 ELSE 1

\* mutant: the digits after the first decimal are cut off
PyRound1_truncating(h) == h \div 10

\* round(float(h / 100), 1), in tenths
PyRound1(h) ==
  LET q == h \div 10
      d == h % 10
      s == FloatErrSign(h)
  IN IF d < 5 THEN q
     ELSE IF d > 5 THEN q + 1
     ELSE IF s < 0 THEN q
     ELSE IF s > 0 THEN q + 1
     ELSE IF q % 2 = 0 THEN q ELSE q + 1

\* ------------------------------------------------- controller (peer)
\* The effect of one mutation call on the controller: a write of one field
\* of one zone; the mode is system-wide and is written to every zone.
ApplyCall(ctl, c) ==
  IF c.op = "set_temperature" THEN [ctl EXCEPT ![c.zone].setpoint = c.value]
  ELSE IF c.op = "turn_on" THEN [ctl EXCEPT ![c.zone].on = TRUE]
  ELSE IF c.op = "turn_off" THEN [ctl EXCEPT ![c.zone].on = FALSE]
  ELSE IF c.op = "set_mode" THEN [z \in DOMAIN ctl |-> [ctl[z] EXCEPT !.mode = c.mode]]
  ELSE ctl

RECURSIVE ApplyCalls(_, _)
ApplyCalls(ctl, cs) ==
  IF cs = <<>> THEN ctl ELSE ApplyCalls(ApplyCall(ctl, Head(cs)), Tail(cs))

\* the device list the controller answers a fetch with
DeviceRelations(ctl) == [i \in 1..NumZones |-> Device(i, ctl[i])]

\* --------------------------------------------------------- _load_all
\* lines 83-84: current_devices = self._devices; self._devices = []
LoadBegin(caller) ==
  /\ current_devices' = devices
  /\ devices' = <<>>
  /\ fetched' = <<>>
  /\ loadPc' = "fetch"
  /\ loadCaller' = caller

\* line 86: self._get_device_relations() returns the list, or raises
LoadFetch ==
  /\ loadPc = "fetch"
  /\ \/ /\ fetched' = DeviceRelations(controller)
        /\ loadPc' = "loop"
     \/ /\ fetched' = fetched
        /\ loadPc' = "raised"
  /\ UNCHANGED <<controller, devices, current_devices, loadCaller, setupPc, notifications,
                 addEntitiesCalls, entities, updateRaised, master, calls, lastCmd, reported>>
  /\ UNCHANGED reqVars

\* lines 86-98, one iteration: the device of current_devices with the same
\* id is reused with its data refreshed, otherwise a new Device is made
LoadedDevice(current, device_data) ==
  LET found == {i \in 1..Len(current) : current[i].id = device_data.id}
  IN IF found # {}
     THEN LET i == CHOOSE j \in found : \A k \in found : j <= k
          IN [current[i] EXCEPT !.on = device_data.on, !.mode = device_data.mode,
                                !.setpoint = device_data.setpoint]
     ELSE Device(device_data.id, device_data)

LoadDevice ==
  /\ loadPc = "loop"
  /\ Len(devices) < Len(fetched)
  /\ devices' = Append(devices, LoadedDevice(current_devices, fetched[Len(devices) + 1]))
  /\ UNCHANGED <<controller, current_devices, fetched, loadPc, loadCaller, setupPc,
                 notifications, addEntitiesCalls, entities, updateRaised, master, calls,
                 lastCmd, reported>>
  /\ UNCHANGED reqVars

\* _load_all has returned self._devices (line 101)
LoadReturned == loadPc = "loop" /\ Len(devices) = Len(fetched)

\* _load_all is left: its locals are gone
LoadLeave ==
  /\ loadPc' = "idle"
  /\ loadCaller' = "none"
  /\ current_devices' = <<>>
  /\ fetched' = <<>>

\* ------------------------------------------------------ setup_platform
\* line 197: api = AirzoneCloudLocal(ip); the constructor runs _load_all
SetupStart ==
  /\ setupPc = "start"
  /\ setupPc' = "constructing"
  /\ LoadBegin("init")
  /\ UNCHANGED <<controller, notifications, addEntitiesCalls, entities, updateRaised,
                 master, calls, lastCmd, reported>>
  /\ UNCHANGED reqVars

\* mutant: the handler of the failed construction does not return, and the
\* registration that follows it runs
SetupAbort_registering ==
  /\ setupPc = "constructing" /\ loadCaller = "init" /\ loadPc = "raised"
  /\ notifications' = notifications + 1
  /\ setupPc' = "aborted"
  /\ entities' = {devices[i].id : i \in 1..Len(devices)} \cup {0}
  /\ addEntitiesCalls' = addEntitiesCalls + 1
  /\ LoadLeave
  /\ UNCHANGED <<controller, devices, updateRaised, master, calls, lastCmd, reported>>
  /\ UNCHANGED reqVars

\* lines 198-205: the constructor raised; log, notify the host once, return
SetupAbort ==
  /\ setupPc = "constructing" /\ loadCaller = "init" /\ loadPc = "raised"
  /\ notifications' = notifications + 1
  /\ setupPc' = "aborted"
  /\ LoadLeave
  /\ UNCHANGED <<controller, devices, addEntitiesCalls, entities, updateRaised, master,
                 calls, lastCmd, reported>>
  /\ UNCHANGED reqVars

\* lines 207-216: one zone entity per zone, one system entity, add_entities
SetupRegister ==
  /\ setupPc = "constructing" /\ loadCaller = "init" /\ LoadReturned
  /\ entities' = {devices[i].id : i \in 1..Len(devices)} \cup {0}
  /\ addEntitiesCalls' = addEntitiesCalls + 1
  /\ setupPc' = "ready"
  /\ LoadLeave
  /\ UNCHANGED <<controller, devices, notifications, updateRaised, master, calls, lastCmd,
                 reported>>
  /\ UNCHANGED reqVars

\* the host calls an entity's handlers one at a time, once it is registered
HandlerEnabled(e) == setupPc = "ready" /\ loadPc = "idle" /\ e \in entities

\* --------------------------------------------- AirzonecloudSystem.update
\* lines 408-409: the refresh; nothing is caught here
UpdateBegin ==
  /\ HandlerEnabled(0)
  /\ lastCmd' = Cmd("update", 0, "", FALSE, <<>>)
  /\ calls' = <<>>
  /\ updateRaised' = FALSE
  /\ LoadBegin("update")
  /\ UNCHANGED <<controller, setupPc, notifications, addEntitiesCalls, entities, master,
                 reported>>
  /\ UNCHANGED reqVars

UpdateReturn ==
  /\ loadCaller = "update" /\ LoadReturned
  /\ LoadLeave
  /\ UNCHANGED <<controller, devices, setupPc, notifications, addEntitiesCalls, entities,
                 updateRaised, master, calls, lastCmd, reported>>
  /\ UNCHANGED reqVars

\* the exception of the refresh leaves update
UpdateRaise ==
  /\ loadCaller = "update" /\ loadPc = "raised"
  /\ updateRaised' = TRUE
  /\ LoadLeave
  /\ UNCHANGED <<controller, devices, setupPc, notifications, addEntitiesCalls, entities,
                 master, calls, lastCmd, reported>>
  /\ UNCHANGED reqVars

\* ------------------------------------------------ AirzonecloudZone commands
\* lines 313-315 and 317-319
turn_on_calls(z) == <<Call("turn_on", z, PyNone, 0)>>
turn_off_calls(z) == <<Call("turn_off", z, PyNone, 0)>>

\* lines 289-293; kwargs is <<>> without a temperature, <<h>> with h hundredths
set_temperature_calls(z, kwargs) ==
  IF Len(kwargs) = 0 THEN <<>>
  ELSE <<Call("set_temperature", z, PyNone, PyRound1(kwargs[1]))>>

SetMode(name) == <<Call("set_mode", 0, PyStr(name), 0)>>

\* mutant: the mode is set on the system before the zone is turned on
set_hvac_mode_calls_mode_first(zone, z, mode) ==
  IF mode = HVAC_MODE_OFF THEN turn_off_calls(z)
  ELSE (IF mode = HVAC_MODE_HEAT THEN SetMode("heat-both")
        ELSE IF mode = HVAC_MODE_COOL THEN SetMode("cool-both")
        ELSE IF mode = HVAC_MODE_DRY THEN SetMode("dehumidify")
        ELSE IF mode = HVAC_MODE_FAN_ONLY THEN SetMode("ventilate")
        ELSE <<>>)
       \o (IF ~is_on(zone) THEN turn_on_calls(z) ELSE <<>>)

\* lines 295-311: the calls AirzonecloudZone.set_hvac_mode makes, in order
set_hvac_mode_calls(zone, z, mode) ==
  IF mode = HVAC_MODE_OFF THEN turn_off_calls(z)
  ELSE (IF ~is_on(zone) THEN turn_on_calls(z) ELSE <<>>)
       \o (IF mode = HVAC_MODE_HEAT THEN SetMode("heat-both")
           ELSE IF mode = HVAC_MODE_COOL THEN SetMode("cool-both")
           ELSE IF mode = HVAC_MODE_DRY THEN SetMode("dehumidify")
           ELSE IF mode = HVAC_MODE_FAN_ONLY THEN SetMode("ventilate")
           ELSE <<>>)

\* lines 390-401: AirzonecloudSystem.set_hvac_mode; `if OFF` then `if/elif`
system_set_hvac_mode_calls(mode) ==
  (IF mode = HVAC_MODE_OFF THEN SetMode("stop") ELSE <<>>)
  \o (IF mode = HVAC_MODE_HEAT THEN SetMode("heat-both")
      ELSE IF mode = HVAC_MODE_COOL THEN SetMode("cool-both")
      ELSE IF mode = HVAC_MODE_DRY THEN SetMode("dehumidify")
      ELSE IF mode = HVAC_MODE_FAN_ONLY THEN SetMode("ventilate")
      ELSE <<>>)

\* a handler that issues the calls cs: each reaches the controller
Issue(cmd, cs) ==
  /\ lastCmd' = cmd
  /\ calls' = cs
  /\ controller' = ApplyCalls(controller, cs)
  /\ UNCHANGED <<current_devices, fetched, loadPc, loadCaller, setupPc, notifications,
                 addEntitiesCalls, entities, updateRaised, master, reported>>
  /\ UNCHANGED reqVars

\* the entity of zone z has its zone in the snapshot
ZoneBound(z) == HandlerEnabled(z) /\ z \in 1..Len(devices)

\* mutant: the handler also writes the new power state into the snapshot
zone_turn_on_optimistic(z) ==
  /\ ZoneBound(z)
  /\ Issue(Cmd("zone.turn_on", z, "", is_on(devices[z]), <<>>), turn_on_calls(z))
  /\ devices' = [devices EXCEPT ![z].on = TRUE]

zone_turn_on(z) ==
  /\ ZoneBound(z)
  /\ Issue(Cmd("zone.turn_on", z, "", is_on(devices[z]), <<>>), turn_on_calls(z))
  /\ devices' = devices

zone_turn_off(z) ==
  /\ ZoneBound(z)
  /\ Issue(Cmd("zone.turn_off", z, "", is_on(devices[z]), <<>>), turn_off_calls(z))
  /\ devices' = devices

zone_set_temperature(z, kwargs) ==
  /\ ZoneBound(z)
  /\ Issue(Cmd("zone.set_temperature", z, "", is_on(devices[z]), kwargs),
           set_temperature_calls(z, kwargs))
  /\ devices' = devices

zone_set_hvac_mode(z, mode) ==
  /\ ZoneBound(z)
  /\ Issue(Cmd("zone.set_hvac_mode", z, mode, is_on(devices[z]), <<>>),
           set_hvac_mode_calls(devices[z], z, mode))
  /\ devices' = devices

system_set_hvac_mode(mode) ==
  /\ HandlerEnabled(0)
  /\ Issue(Cmd("system.set_hvac_mode", 0, mode, FALSE, <<>>), system_set_hvac_mode_calls(mode))
  /\ devices' = devices

\* AirzonecloudZone.hvac_mode read by the host
ReadHvacMode(z) ==
  /\ ZoneBound(z)
  /\ reported' = [zone |-> z, value |-> hvac_mode(devices[z])]
  /\ UNCHANGED <<controller, devices, current_devices, fetched, loadPc, loadCaller, setupPc,
                 notifications, addEntitiesCalls, entities, updateRaised, master, calls,
                 lastCmd>>
  /\ UNCHANGED reqVars

\* ------------------------------------------- AirzoneCloudLocal._request
\* _get (lines 129-133) and _post (lines 135-145) start a request
RequestKinds ==
  {"GET device_relations", "GET systems", "GET zones", "POST events"}
Statuses == {200, 401, 403, 500}

LastStatus == statusSeq[Len(statusSeq)]

RequestStart(kind) ==
  /\ reqPc \in {"idle", "done"}
  /\ token < MaxTokens
  /\ reqKind' = kind
  /\ autoreconnect' = TRUE
  /\ depth' = 1
  /\ httpCalls' = 0
  /\ logins' = 0
  /\ statusSeq' = <<>>
  /\ reqResult' = "pending"
  /\ reqSteps' = 0
  /\ reqPc' = "call"
  /\ UNCHANGED token
  /\ UNCHANGED mainVars

\* line 161: self._session.request answers with a status, or raises
RequestCall ==
  /\ reqPc = "call"
  /\ httpCalls' = httpCalls + 1
  /\ reqSteps' = reqSteps + 1
  /\ \/ \E status \in Statuses :
          /\ statusSeq' = Append(statusSeq, status)
          /\ reqPc' = "check"
          /\ reqResult' = reqResult
     \/ /\ statusSeq' = statusSeq
        /\ reqPc' = "done"
        /\ reqResult' = "error"
  /\ UNCHANGED <<reqKind, autoreconnect, depth, logins, token>>
  /\ UNCHANGED mainVars

\* mutant: the retry keeps autoreconnect
RequestReconnect_autoreconnecting ==
  /\ reqPc = "check"
  /\ LastStatus = 401 /\ autoreconnect
  /\ logins' = logins + 1
  /\ reqSteps' = reqSteps + 1
  /\ \/ /\ token' = token + 1
        /\ autoreconnect' = TRUE
        /\ depth' = depth + 1
        /\ reqPc' = "call"
        /\ reqResult' = reqResult
     \/ /\ token' = token
        /\ autoreconnect' = autoreconnect
        /\ depth' = depth
        /\ reqPc' = "done"
        /\ reqResult' = "error"
  /\ UNCHANGED <<reqKind, httpCalls, statusSeq>>
  /\ UNCHANGED mainVars

\* lines 163-180: on 401 with autoreconnect, _login (lines 63-79) sets a new
\* token or raises; then _request is called again with autoreconnect=False
RequestReconnect ==
  /\ reqPc = "check"
  /\ LastStatus = 401 /\ autoreconnect
  /\ logins' = logins + 1
  /\ reqSteps' = reqSteps + 1
  /\ \/ /\ token' = token + 1
        /\ autoreconnect' = FALSE
        /\ depth' = depth + 1
        /\ reqPc' = "call"
        /\ reqResult' = reqResult
     \/ /\ token' = token
        /\ autoreconnect' = autoreconnect
        /\ depth' = depth
        /\ reqPc' = "done"
        /\ reqResult' = "error"
  /\ UNCHANGED <<reqKind, httpCalls, statusSeq>>
  /\ UNCHANGED mainVars

\* lines 183-185: raise_for_status, then the decoded body is returned
RequestFinish ==
  /\ reqPc = "check"
  /\ ~(LastStatus = 401 /\ autoreconnect)
  /\ reqResult' = IF LastStatus >= 400 THEN "error" ELSE "ok"
  /\ reqPc' = "done"
  /\ reqSteps' = reqSteps + 1
  /\ UNCHANGED <<reqKind, autoreconnect, depth, httpCalls, logins, statusSeq, token>>
  /\ UNCHANGED mainVars

\* ------------------------------------------------------ specifications
ReqInit ==
  /\ reqPc = "idle"
  /\ reqKind = ""
  /\ autoreconnect = TRUE
  /\ depth = 0
  /\ httpCalls = 0
  /\ logins = 0
  /\ statusSeq = <<>>
  /\ reqResult = "pending"
  /\ reqSteps = 0
  /\ token = 0

\* the controller before the platform is set up: any power state per zone,
\* one system-wide mode, the default setpoint
InitControllers ==
  {[z \in Zones |-> ZoneData(on[z], PyStr(m), 10 * DefaultTemp)] :
     on \in [Zones -> BOOLEAN], m \in SentModeNames}

\* the state before setup_platform: the snapshot is empty
MainInit(ctl) ==
  /\ controller = ctl
  /\ devices = <<>>
  /\ current_devices = <<>>
  /\ fetched = <<>>
  /\ loadPc = "idle"
  /\ loadCaller = "none"
  /\ setupPc = "start"
  /\ notifications = 0
  /\ addEntitiesCalls = 0
  /\ entities = {}
  /\ updateRaised = FALSE
  /\ master = 1
  /\ calls = <<>>
  /\ lastCmd = NoCmd
  /\ reported = NoReport

\* the state after a successful setup_platform with the snapshot devs
ReadyInit(ctl, devs, m) ==
  /\ controller = ctl
  /\ devices = devs
  /\ current_devices = <<>>
  /\ fetched = <<>>
  /\ loadPc = "idle"
  /\ loadCaller = "none"
  /\ setupPc = "ready"
  /\ notifications = 0
  /\ addEntitiesCalls = 1
  /\ entities = {devs[i].id : i \in 1..Len(devs)} \cup {0}
  /\ updateRaised = FALSE
  /\ master = m
  /\ calls = <<>>
  /\ lastCmd = NoCmd
  /\ reported = NoReport

Init == (\E ctl \in InitControllers : MainInit(ctl)) /\ ReqInit

\* temperatures the host asks for in the platform run, in hundredths
MainTemperatures == {2126}

Next ==
  \/ SetupStart
  \/ SetupAbort
  \/ SetupRegister
  \/ LoadFetch
  \/ LoadDevice
  \/ UpdateBegin
  \/ UpdateReturn
  \/ UpdateRaise
  \/ \E z \in Zones : zone_turn_on(z)
  \/ \E z \in Zones : zone_turn_off(z)
  \/ \E z \in Zones : zone_set_temperature(z, <<>>)
  \/ \E z \in Zones, h \in MainTemperatures : zone_set_temperature(z, <<h>>)
  \/ \E z \in Zones, mode \in HvacModes : zone_set_hvac_mode(z, mode)
  \/ \E mode \in HvacModes : system_set_hvac_mode(mode)

Spec == Init /\ [][Next]_vars

\* ---- hvac_mode as a function of the snapshot: every snapshot a refresh can
\* leave, the mode field an integer code or a mode name
ModeValues == {PyInt(c) : c \in RawCodes} \cup {PyStr(n) : n \in KnownModeNames}
ModeZoneData == {ZoneData(on, m, 10 * DefaultTemp) : on \in BOOLEAN, m \in ModeValues}

InitMode ==
  /\ \E d \in [Zones -> ModeZoneData], m \in Zones :
       ReadyInit(d, [i \in 1..NumZones |-> Device(i, d[i])], m)
  /\ ReqInit

NextMode == \E z \in Zones : ReadHvacMode(z)

SpecMode == InitMode /\ [][NextMode]_vars

\* ---- set_temperature over the range of target temperatures
Temperatures == (100 * MinTempC)..(100 * MaxTempC)

InitTemp ==
  /\ \E ctl \in InitControllers :
       /\ ctl[1].mode = PyStr("heat-both")
       /\ ReadyInit(ctl, DeviceRelations(ctl), 1)
  /\ ReqInit

NextTemp ==
  \/ zone_set_temperature(master, <<>>)
  \/ \E h \in Temperatures : zone_set_temperature(master, <<h>>)

SpecTemp == InitTemp /\ [][NextTemp]_vars

\* ---- _request on its own
InitRequest == MainInit([z \in Zones |-> ZoneData(FALSE, PyStr("stop"), 10 * DefaultTemp)]) /\ ReqInit

NextRequest ==
  \/ \E kind \in RequestKinds : RequestStart(kind)
  \/ RequestCall
  \/ RequestReconnect
  \/ RequestFinish

SpecRequest == InitRequest /\ [][NextRequest]_vars

\* =============================================================== claims
\* the mode table of the specification, by raw code
TableMode(code) ==
  IF code = 2 THEN HVAC_MODE_COOL
  ELSE IF code = 3 THEN HVAC_MODE_HEAT
  ELSE IF code = 4 THEN HVAC_MODE_FAN_ONLY
  ELSE IF code = 5 THEN HVAC_MODE_DRY
  ELSE HVAC_MODE_OFF

\* the raw code of each value of the mode enumeration
RawCodeOf(mode) ==
  IF mode = HVAC_MODE_COOL THEN 2
  ELSE IF mode = HVAC_MODE_HEAT THEN 3
  ELSE IF mode = HVAC_MODE_FAN_ONLY THEN 4
  ELSE IF mode = HVAC_MODE_DRY THEN 5
  ELSE 1

\* C1: whenever a zone whose mode field is a raw code in 1..5 is read,
\* hvac_mode returns the table value of that code if the zone is on, and OFF
\* if the zone is off, whatever its mode field.
C1_ModeTable ==
  reported.zone # 0 =>
    LET zone == devices[reported.zone]
    IN /\ ~zone.on => reported.value = HVAC_MODE_OFF
       /\ zone.mode.kind = "int" /\ zone.mode.int \in RawCodes =>
            reported.value = IF zone.on THEN TableMode(zone.mode.int) ELSE HVAC_MODE_OFF

\* C2: when the refresh run by update fails, the snapshot equals the one held
\* before the call, and no exception leaves update.
C2_FailedRefreshKeepsSnapshot ==
  /\ loadCaller = "update" /\ loadPc = "raised" => devices = current_devices
  /\ ~updateRaised

C4_SetHvacModeRawCode ==
  lastCmd.op \in {"zone.set_hvac_mode", "system.set_hvac_mode"} =>
    \E i \in 1..Len(calls) :
      calls[i].op = "set_mode" /\ calls[i].mode = PyInt(RawCodeOf(lastCmd.mode))

\* C5: if the initial load fails, the host is notified once, add_entities is
\* never called and no entity is registered; entities are registered, all of
\* them in one call, only by a setup whose construction succeeded.
C5_FailedSetupRegistersNothing ==
  /\ setupPc = "aborted" => notifications = 1 /\ addEntitiesCalls = 0 /\ entities = {}
  /\ setupPc \in {"start", "constructing"} =>
       notifications = 0 /\ addEntitiesCalls = 0 /\ entities = {}
  /\ entities # {} \/ addEntitiesCalls > 0 =>
       /\ setupPc = "ready"
       /\ notifications = 0
       /\ addEntitiesCalls = 1
       /\ entities = Zones \cup {0}

\* C5 witness: the initial load failed and setup_platform returned.
C5_Witness == setupPc = "aborted" /\ notifications = 1 /\ devices = <<>>

\* the mode a zone that is on should report for the system-wide mode m
ClaimedMode(m) ==
  IF m.kind = "int" THEN TableMode(m.int) ELSE hvac_mode(ZoneData(TRUE, m, 0))

\* C6: two zones that are both on report the same hvac_mode, and a zone that
\* is on reports the value of the master zone's mode, not of its own.
C6_MasterMode ==
  reported.zone # 0 /\ is_on(devices[reported.zone]) =>
    /\ \A b \in 1..Len(devices) : is_on(devices[b]) => reported.value = hvac_mode(devices[b])
    /\ reported.value = ClaimedMode(devices[master].mode)

\* C7: at every point of a running refresh the snapshot a reader sees is the
\* complete one of before the refresh or the complete new one, and the new
\* one holds exactly the fetched data.
C7_AtomicReplacement ==
  loadCaller = "update" /\ loadPc # "idle" =>
    /\ \/ devices = current_devices
       \/ loadPc = "loop" /\ devices = fetched
    /\ LoadReturned => devices = fetched

\* round half-up to one decimal place, in tenths
HalfUp(h) == (h + 5) \div 10

\* C8 as stated: set_temperature issues exactly one call, with the value
\* rounded half-up to one decimal; without a temperature it issues none.
C8_RoundHalfUp ==
  lastCmd.op = "zone.set_temperature" =>
    IF lastCmd.kwargs = <<>> THEN calls = <<>>
    ELSE calls = <<Call("set_temperature", lastCmd.zone, PyNone, HalfUp(lastCmd.kwargs[1]))>>

\* C8 amended: set_temperature issues exactly one call (none without a
\* temperature) whose setpoint is a tenth nearest to the value: the half-up
\* value unless the value ends in exactly 5 hundredths, and then one of the
\* two neighbouring tenths, not always the upper (21.26 -> 21.3,
\* 21.25 -> 21.2, 21.15 -> 21.1, 21.35 -> 21.4).
C8_RoundNearestTenth ==
  lastCmd.op = "zone.set_temperature" =>
    IF lastCmd.kwargs = <<>> THEN calls = <<>>
    ELSE LET h == lastCmd.kwargs[1]
         IN /\ Len(calls) = 1
            /\ calls[1].op = "set_temperature"
            /\ calls[1].zone = lastCmd.zone
            /\ h % 10 # 5 => calls[1].value = HalfUp(h)
            /\ h % 10 = 5 => calls[1].value \in {h \div 10, h \div 10 + 1}
            /\ h = 2126 => calls[1].value = 213
            /\ h = 2125 => calls[1].value = 212
            /\ h = 2115 => calls[1].value = 211
            /\ h = 2135 => calls[1].value = 214

\* C8 witness: 21.25 was requested and 21.2 was sent.
C8_Witness ==
  /\ lastCmd.op = "zone.set_temperature"
  /\ lastCmd.kwargs = <<2125>>
  /\ calls = <<Call("set_temperature", lastCmd.zone, PyNone, 212)>>

\* C9: one invocation of _request makes at most two HTTP calls and one
\* login, logs in and retries only after a 401 on the first call, never after
\* the retried call (whose 401 ends in an error), and ends within four steps.
C9_AuthRetryOnce ==
  /\ httpCalls <= 2 /\ logins <= 1 /\ depth <= 2
  /\ Len(statusSeq) <= httpCalls
  /\ logins = 1 => Len(statusSeq) >= 1 /\ statusSeq[1] = 401
  /\ httpCalls = 2 => logins = 1
  /\ Len(statusSeq) = 2 => ~autoreconnect /\ ~ENABLED RequestReconnect
  /\ reqPc = "done" /\ Len(statusSeq) = 2 /\ statusSeq[2] = 401 => reqResult = "error"
  /\ reqSteps <= 4
  /\ reqPc = "call" => ENABLED RequestCall
  /\ reqPc = "check" => ENABLED (RequestReconnect \/ RequestFinish)

\* C9 witness: the retried call answered 401 and the invocation ended in an
\* error after one login.
C9_Witness ==
  /\ reqPc = "done"
  /\ statusSeq = <<401, 401>>
  /\ logins = 1
  /\ reqResult = "error"

\* C10: a zone's set_hvac_mode emits, for a mode other than OFF, one set_mode
\* call, preceded by a turn_on of the zone exactly when the zone was off, and
\* for OFF exactly one turn_off and nothing else; never two set_mode calls.
C10_CallOrder ==
  lastCmd.op = "zone.set_hvac_mode" =>
    LET setModes == {i \in 1..Len(calls) : calls[i].op = "set_mode"}
        turnOns == {i \in 1..Len(calls) : calls[i].op = "turn_on"}
        turnOffs == {i \in 1..Len(calls) : calls[i].op = "turn_off"}
    IN /\ Cardinality(setModes) <= 1
       /\ lastCmd.mode # HVAC_MODE_OFF =>
            /\ Cardinality(setModes) = 1
            /\ turnOffs = {}
            /\ lastCmd.was_on => turnOns = {}
            /\ ~lastCmd.was_on =>
                 /\ Cardinality(turnOns) = 1
                 /\ \A i \in turnOns : calls[i].zone = lastCmd.zone
                 /\ \A i \in turnOns, j \in setModes : i < j
       /\ lastCmd.mode = HVAC_MODE_OFF =>
            /\ calls = turn_off_calls(lastCmd.zone)
            /\ setModes = {} /\ turnOns = {}

\* C10 witness: a mode other than OFF was set on a zone that was off.
C10_Witness ==
  /\ lastCmd.op = "zone.set_hvac_mode"
  /\ lastCmd.mode = HVAC_MODE_HEAT
  /\ ~lastCmd.was_on
  /\ Len(calls) = 2
  /\ calls[1].op = "turn_on" /\ calls[2].op = "set_mode"

====
